---- MODULE Spec2Model ----
(***************************************************************************)
(* A model of lib/aclgenerator.py: the Term helper class (address-family   *)
(* and ICMP-type normalisation) and the ACLGenerator base class (keyword   *)
(* validation in __init__, FixHighPorts, FixTermLength).                   *)
(*                                                                         *)
(* Python values are modelled as follows.                                  *)
(*   str            a TLA+ string                                          *)
(*   list           a sequence                                             *)
(*   set            a set                                                  *)
(*   int-or-str     a record [t, n, s] (Num(n) or Str(s)), so that a       *)
(*                  number and a name can be told apart and compared       *)
(*   a call         ends in Return(v) or in Raise(error class name)        *)
(*   objects        live on a heap (terms, lists) and are named by ids     *)
(***************************************************************************)
EXTENDS Integers, Sequences, FiniteSets, TLC

VARIABLES
  call,    \* the latest call of a stateless operation: its name and arguments
  ret,     \* the outcome of that call
  terms,   \* heap of term objects: id -> [name, protocol, option, destination_port]
  lists,   \* heap of port-list objects: ref -> sequence of <<low, high>>
  self,    \* the generator instance FixHighPorts is called on (class attributes)
  fix,     \* the latest FixHighPorts call and its outcome
  pc,      \* position of ACLGenerator.__init__ in its loops
  header,  \* __init__: the header of the filter being iterated
  term,    \* __init__: the term last taken from the filter's term list
  nfilters,\* __init__: filters taken from pol.filters so far
  nterms,  \* __init__: terms taken from the current filter so far
  active,  \* history: some term seen so far is active on the platform and invalid
  inert    \* history: some term seen so far holds invalid fields but is skipped

vars == <<call, ret, terms, lists, self, fix, pc, header, term, nfilters,
          nterms, active, inert>>

(***************************************************************************)
(* Outcomes of a call.                                                     *)
(***************************************************************************)
Return(v) == [kind |-> "return", val |-> v]
Raise(e)  == [kind |-> "raise", err |-> e]
NoCall    == [kind |-> "none"]

Num(n) == [t |-> "int", n |-> n, s |-> ""]
Str(s) == [t |-> "str", n |-> 0, s |-> s]

(***************************************************************************)
(* class Term                                                              *)
(***************************************************************************)
AF_MAP == [k \in {"inet", "inet6", "bridge"} |->
             IF k = "inet6" THEN 6 ELSE 4]

\* The flipped dict. Two names map to 4, so which name 4 maps back to depends
\* on the dict's iteration order; the code reads only the keys.
AF_MAP_BY_NUMBER == [v \in {AF_MAP[k] : k \in DOMAIN AF_MAP} |->
                       CHOOSE k \in DOMAIN AF_MAP : AF_MAP[k] = v]

\* policy.Term.ICMP_TYPE: address family -> (type name -> code).
ICMP_TYPE == [af \in {4, 6} |->
  IF af = 4
  THEN [x \in {"echo-reply", "unreachable", "echo-request"} |->
          CASE x = "echo-reply"   -> 0
            [] x = "unreachable"  -> 3
            [] x = "echo-request" -> 8]
  ELSE [x \in {"destination-unreachable", "echo-request", "echo-reply"} |->
          CASE x = "destination-unreachable" -> 1
            [] x = "echo-request"            -> 128
            [] x = "echo-reply"              -> 129]]

\* A mutation of NormalizeAddressFamily: the alias 'bridge' is not known.
NormalizeAddressFamilyNoBridge(af) ==
  IF af.t = "int" /\ af.n \in DOMAIN AF_MAP_BY_NUMBER
  THEN Return(af)
  ELSE IF af.t = "str" /\ af.s \in (DOMAIN AF_MAP) \ {"bridge"}
  THEN Return(Num(AF_MAP[af.s]))
  ELSE Raise("UnsupportedAF")

NormalizeAddressFamily(af) ==
  IF af.t = "int" /\ af.n \in DOMAIN AF_MAP_BY_NUMBER
  THEN Return(af)
  ELSE IF af.t = "str" /\ af.s \in DOMAIN AF_MAP
  THEN Return(Num(AF_MAP[af.s]))
  ELSE Raise("UnsupportedAF")

\* list.sort() on a list of numbers.
Sort(s) == SortSeq(s, LAMBDA a, b : a < b)

\* A mutation of NormalizeIcmpTypes: the codes are returned in input order.
NormalizeIcmpTypesUnsorted(icmp_types, protocols, af) ==
  IF icmp_types = <<>> THEN Return(<<"">>)
  ELSE IF protocols # <<"icmp">> /\ protocols # <<"icmpv6">>
  THEN Raise("UnsupportedFilterError")
  ELSE LET naf == NormalizeAddressFamily(af) IN
    IF naf.kind = "raise" THEN naf
    ELSE LET n == naf.val.n IN
      IF (n # 4 /\ protocols = <<"icmp">>) \/ (n # 6 /\ protocols = <<"icmpv6">>)
      THEN Raise("MismatchIcmpInetError")
      ELSE IF \E i \in 1..Len(icmp_types) : icmp_types[i] \notin DOMAIN ICMP_TYPE[n]
      THEN Raise("UnknownIcmpTypeError")
      ELSE Return([i \in 1..Len(icmp_types) |-> ICMP_TYPE[n][icmp_types[i]]])

\* A mutation of NormalizeIcmpTypes: the address family is normalised before
\* the protocols are looked at.
NormalizeIcmpTypesAfFirst(icmp_types, protocols, af) ==
  IF icmp_types = <<>> THEN Return(<<"">>)
  ELSE LET naf == NormalizeAddressFamily(af) IN
    IF naf.kind = "raise" THEN naf
    ELSE IF protocols # <<"icmp">> /\ protocols # <<"icmpv6">>
    THEN Raise("UnsupportedFilterError")
    ELSE LET n == naf.val.n IN
      IF (n # 4 /\ protocols = <<"icmp">>) \/ (n # 6 /\ protocols = <<"icmpv6">>)
      THEN Raise("MismatchIcmpInetError")
      ELSE IF \E i \in 1..Len(icmp_types) : icmp_types[i] \notin DOMAIN ICMP_TYPE[n]
      THEN Raise("UnknownIcmpTypeError")
      ELSE Return(Sort([i \in 1..Len(icmp_types) |-> ICMP_TYPE[n][icmp_types[i]]]))

NormalizeIcmpTypes(icmp_types, protocols, af) ==
  IF icmp_types = <<>> THEN Return(<<"">>)
  ELSE IF protocols # <<"icmp">> /\ protocols # <<"icmpv6">>
  THEN Raise("UnsupportedFilterError")
  ELSE LET naf == NormalizeAddressFamily(af) IN
    IF naf.kind = "raise" THEN naf
    ELSE LET n == naf.val.n IN
      IF (n # 4 /\ protocols = <<"icmp">>) \/ (n # 6 /\ protocols = <<"icmpv6">>)
      THEN Raise("MismatchIcmpInetError")
      ELSE IF \E i \in 1..Len(icmp_types) : icmp_types[i] \notin DOMAIN ICMP_TYPE[n]
      THEN Raise("UnknownIcmpTypeError")
      ELSE Return(Sort([i \in 1..Len(icmp_types) |-> ICMP_TYPE[n][icmp_types[i]]]))

(***************************************************************************)
(* class ACLGenerator: class attributes                                    *)
(***************************************************************************)
DEFAULT_PROTOCOL == "ip"

REQUIRED_KEYWORDS ==
  {"action", "comment", "destination_address", "destination_address_exclude",
   "destination_port", "icmp_type", "name", "option", "protocol", "platform",
   "platform_exclude", "source_address", "source_address_exclude",
   "source_port", "translated", "verbatim"}

ABBREVIATION_TABLE ==
  << <<"bogons", "BGN">>,
     <<"bogon", "BGN">>,
     <<"reserved", "RSV">>,
     <<"rfc1918", "PRV">>,
     <<"rfc-1918", "PRV">>,
     <<"internet", "EXT">>,
     <<"global", "GBL">>,
     <<"internal", "INT">>,
     <<"customer", "CUST">>,
     <<"google", "GOOG">>,
     <<"ballmer", "ASS">>,
     <<"microsoft", "LOL">>,
     <<"china", "BAN">>,
     <<"border", "BDR">>,
     <<"service", "SVC">>,
     <<"router", "RTR">>,
     <<"transit", "TRNS">>,
     <<"experiment", "EXP">>,
     <<"established", "EST">>,
     <<"unreachable", "UNR">>,
     <<"fragment", "FRG">>,
     <<"accept", "OK">>,
     <<"discard", "DSC">>,
     <<"reject", "REJ">>,
     <<"replies", "ACK">>,
     <<"request", "REQ">> >>

TERM_MAX_LENGTH == 62

(***************************************************************************)
(* ACLGenerator.FixTermLength                                              *)
(***************************************************************************)
\* s[:n]
Slice(s, n) == IF Len(s) > n THEN SubSeq(s, 1, n) ELSE s

\* s[n:]
Tail_(s, n) == IF Len(s) > n THEN SubSeq(s, n + 1, Len(s)) ELSE ""

\* A mutation of StartsWith: str.find(p) != -1, p anywhere in s.
Contains(s, p) ==
  \E i \in 1..(Len(s) - Len(p) + 1) : SubSeq(s, i, i + Len(p) - 1) = p

\* str.find(p) == 0
StartsWith(s, p) == Len(s) >= Len(p) /\ SubSeq(s, 1, Len(p)) = p

\* The start positions of the occurrences of word in s.
Occurrences(word, s) ==
  {i \in 1..(Len(s) - Len(word) + 1) : SubSeq(s, i, i + Len(word) - 1) = word}

\* re.sub(word, abbrev, s) for a pattern without metacharacters (every pattern
\* of the table is one): each leftmost non-overlapping occurrence is replaced.
RECURSIVE ReSub(_, _, _)
ReSub(word, abbrev, s) ==
  LET occ == Occurrences(word, s) IN
  IF occ = {} THEN s
  ELSE LET i == CHOOSE k \in occ : \A j \in occ : k <= j
       IN SubSeq(s, 1, i - 1) \o abbrev
            \o ReSub(word, abbrev, Tail_(s, i + Len(word) - 1))

\* A mutation of AbbreviateLoop: the loop returns only when the name is
\* shorter than the limit, not when it is exactly as long.
RECURSIVE AbbreviateLoopStrict(_, _)
AbbreviateLoopStrict(i, new_term) ==
  IF i > Len(ABBREVIATION_TABLE)
  THEN [returned |-> FALSE, new_term |-> new_term]
  ELSE IF Len(new_term) < TERM_MAX_LENGTH
  THEN [returned |-> TRUE, new_term |-> new_term]
  ELSE AbbreviateLoopStrict(i + 1,
         ReSub(ABBREVIATION_TABLE[i][1], ABBREVIATION_TABLE[i][2], new_term))

\* The for loop over the table, from entry i on. returned: the loop left the
\* function through its return statement.
RECURSIVE AbbreviateLoop(_, _)
AbbreviateLoop(i, new_term) ==
  IF i > Len(ABBREVIATION_TABLE)
  THEN [returned |-> FALSE, new_term |-> new_term]
  ELSE IF Len(new_term) <= TERM_MAX_LENGTH
  THEN [returned |-> TRUE, new_term |-> new_term]
  ELSE AbbreviateLoop(i + 1,
         ReSub(ABBREVIATION_TABLE[i][1], ABBREVIATION_TABLE[i][2], new_term))

RaiseTermNameTooLong(new_term, term_name) ==
  [kind |-> "raise", err |-> "TermNameTooLongError", new_term |-> new_term,
   term_name |-> term_name, limit |-> TERM_MAX_LENGTH, length |-> Len(new_term)]

\* A mutation of FixTermLength: the truncate flag is ignored.
FixTermLengthNoTruncate(term_name, abbreviate, truncate) ==
  LET a == IF abbreviate THEN AbbreviateLoop(1, term_name)
           ELSE [returned |-> FALSE, new_term |-> term_name]
  IN IF a.returned THEN Return(a.new_term)
     ELSE IF Len(a.new_term) <= TERM_MAX_LENGTH THEN Return(a.new_term)
     ELSE RaiseTermNameTooLong(a.new_term, term_name)

FixTermLength(term_name, abbreviate, truncate) ==
  LET a == IF abbreviate THEN AbbreviateLoop(1, term_name)
           ELSE [returned |-> FALSE, new_term |-> term_name]
  IN IF a.returned THEN Return(a.new_term)
     ELSE LET new_term == IF truncate THEN Slice(a.new_term, TERM_MAX_LENGTH)
                          ELSE a.new_term
          IN IF Len(new_term) <= TERM_MAX_LENGTH THEN Return(new_term)
             ELSE RaiseTermNameTooLong(new_term, term_name)

(***************************************************************************)
(* ACLGenerator.FixHighPorts                                               *)
(*                                                                         *)
(* A heap H is [terms, lists]. A term object holds its destination_port    *)
(* as a reference to a list object: list.append changes the list object    *)
(* that every holder of the reference sees, an assignment to the field     *)
(* changes one term only. protocol, option and name are never written and  *)
(* are held by value.                                                      *)
(***************************************************************************)
SUPPORTED_AF == {"inet", "inet6"}

\* The base class blacklists nothing.
FILTER_BLACKLIST == <<>>

\* A mutation of HIGH_PORTS: the range starts one port too high.
HIGH_PORTS_FROM_1025 == <<1025, 65535>>

\* The range appended for an established term.
HIGH_PORTS == <<1024, 65535>>

Range(s) == {s[i] : i \in 1..Len(s)}

Max(a, b) == IF a >= b THEN a ELSE b

\* The least id not in use.
NewId(f) == CHOOSE i \in 1..(Cardinality(DOMAIN f) + 1) :
              i \notin DOMAIN f /\ \A j \in 1..(i - 1) : j \in DOMAIN f

\* policy.Term.CollapsePortList: sort by lower bound, then merge every interval
\* whose lower bound is at most the previous upper bound + 1 into the
\* previous one.
RECURSIVE MergePorts(_, _)
MergePorts(sorted, acc) ==
  IF sorted = <<>> THEN acc
  ELSE LET iv == Head(sorted) IN
    IF acc # <<>> /\ iv[1] <= acc[Len(acc)][2] + 1
    THEN MergePorts(Tail(sorted),
                    [acc EXCEPT ![Len(acc)] = <<@[1], Max(@[2], iv[2])>>])
    ELSE MergePorts(Tail(sorted), Append(acc, iv))

CollapsePortList(ports) ==
  MergePorts(SortSeq(ports, LAMBDA a, b : a[1] < b[1]), <<>>)

\* A mutation of deepcopy: copy.copy, a new term object that shares the
\* port list of the term it was copied from.
ShallowCopy(H, t) ==
  LET m == NewId(H.terms)
  IN [terms |-> H.terms @@ (m :> H.terms[t]), lists |-> H.lists, obj |-> m]

\* copy.deepcopy(term): a new term object with a new port list of the same
\* contents. obj is the copy.
deepcopy(H, t) ==
  LET m == NewId(H.terms)
      l == NewId(H.lists)
  IN [terms |-> H.terms @@ (m :> [H.terms[t] EXCEPT !.destination_port = l]),
      lists |-> H.lists @@ (l :> H.lists[H.terms[t].destination_port]),
      obj |-> m]

\* The list objects some term refers to; the others are garbage.
Live(H) == {H.terms[t].destination_port : t \in DOMAIN H.terms}

Collect(H) == [terms |-> H.terms, lists |-> [l \in Live(H) |-> H.lists[l]]]

\* A mutation of AddHighPorts: the list is left as appended, not collapsed.
AddHighPortsNoCollapse(H, t) ==
  LET c == deepcopy(H, t)
      mod == c.obj
      l == c.terms[mod].destination_port
  IN [heap |-> [terms |-> c.terms,
                lists |-> [c.lists EXCEPT ![l] = Append(@, HIGH_PORTS)]],
      out |-> Return(mod)]

\* The TCP/UDP branch: copy the term, append the high ports to the copy's
\* list, bind the copy's field to the collapsed list.
AddHighPorts(H, t) ==
  LET c == deepcopy(H, t)
      mod == c.obj
      l == c.terms[mod].destination_port
      appended == [c.lists EXCEPT ![l] = Append(@, HIGH_PORTS)]
      n == NewId(appended)
  IN [heap |-> Collect(
        [terms |-> [c.terms EXCEPT ![mod].destination_port = n],
         lists |-> appended @@ (n :> CollapsePortList(appended[l]))]),
      out |-> Return(mod)]

\* opt.find('established') == 0
IsEstablished(opt) == StartsWith(opt, "established")

\* gen: the generator's class attributes; H: the heap; t: the term.
\* The result is the heap after the call and the call's outcome (the term
\* returned, or the error raised).
FixHighPorts(gen, H, t, af, all_protocols_stateful) ==
  LET trm == H.terms[t]
      protocols == IF trm.protocol # <<>> THEN Range(trm.protocol)
                   ELSE {DEFAULT_PROTOCOL}
      unsupported_protocols ==
        IF af \in DOMAIN gen.FILTER_BLACKLIST
        THEN gen.FILTER_BLACKLIST[af] \cap protocols ELSE {}
      \* the loop breaks at the first option that matches
      matches == \E i \in 1..Len(trm.option) : IsEstablished(trm.option[i])
      unstateful_protocols == protocols \ {"tcp", "udp"}
  IN IF af \notin gen.SUPPORTED_AF
       THEN [heap |-> H, out |-> Raise("UnsupportedAF")]
     ELSE IF unsupported_protocols # {}
       THEN [heap |-> H, out |-> Raise("UnsupportedFilter")]
     ELSE IF ~matches
       THEN [heap |-> H, out |-> Return(t)]
     ELSE IF unstateful_protocols = {}
       THEN AddHighPorts(H, t)
     ELSE IF ~all_protocols_stateful
       THEN [heap |-> H, out |-> Raise("EstablishedError")]
     ELSE [heap |-> H, out |-> Return(t)]

(***************************************************************************)
(* The stateless operations: inputs and calls                              *)
(***************************************************************************)
MaxIcmpTypes == 2
MaxWords == 3

AfInputs ==
  {Num(n) : n \in {0, 4, 5, 6, 41}} \cup
  {Str(s) : s \in {"inet", "inet6", "bridge", "bogus", "4", "mixed", ""}}

IcmpNames ==
  {"echo-reply", "echo-request", "unreachable", "destination-unreachable",
   "bogus-type"}

IcmpTypeLists == UNION {[1..n -> IcmpNames] : n \in 0..MaxIcmpTypes}

ProtocolLists ==
  {<<>>, <<"icmp">>, <<"icmpv6">>, <<"tcp">>, <<"icmp", "icmpv6">>,
   <<"icmpv6", "tcp">>}

\* Name fragments: a filler of 50 characters and words the table abbreviates
\* (the first, the second, a middle and the last entry).
Words ==
  {"xxxxxxxxxxxxxxxxxxxxxxxxxxxxxxxxxxxxxxxxxxxxxxxxx-",
   "bogons-", "bogon-", "global-", "request"}

RECURSIVE NamesOf(_)
NamesOf(n) == IF n = 0 THEN {""}
              ELSE {p \o w : p \in NamesOf(n - 1), w \in Words}

Names == UNION {NamesOf(n) : n \in 0..MaxWords}

Idle ==
  /\ terms = <<>> /\ lists = <<>> /\ self = "none" /\ fix = NoCall
  /\ pc = "idle" /\ header = {} /\ term = "none"
  /\ nfilters = 0 /\ nterms = 0 /\ active = FALSE /\ inert = FALSE

portsVars == <<terms, lists, self, fix>>
policyVars == <<pc, header, term, nfilters, nterms, active, inert>>

\* The calls a renderer can make, each with its arguments.
Calls ==
  {[op |-> "NormalizeAddressFamily", af |-> af] : af \in AfInputs}
  \cup
  {[op |-> "NormalizeIcmpTypes", icmp_types |-> t[1], protocols |-> t[2],
    af |-> t[3]] : t \in IcmpTypeLists \X ProtocolLists \X AfInputs}
  \cup
  {[op |-> "FixTermLength", term_name |-> t[1], abbreviate |-> t[2],
    truncate |-> t[3]] : t \in Names \X BOOLEAN \X BOOLEAN}

Init == call \in Calls /\ ret = NoCall /\ Idle

CallNormalizeAddressFamily ==
  /\ call.op = "NormalizeAddressFamily" /\ ret = NoCall
  /\ ret' = NormalizeAddressFamily(call.af)
  /\ UNCHANGED <<call, portsVars, policyVars>>

CallNormalizeIcmpTypes ==
  /\ call.op = "NormalizeIcmpTypes" /\ ret = NoCall
  /\ ret' = NormalizeIcmpTypes(call.icmp_types, call.protocols, call.af)
  /\ UNCHANGED <<call, portsVars, policyVars>>

CallFixTermLength ==
  /\ call.op = "FixTermLength" /\ ret = NoCall
  /\ ret' = FixTermLength(call.term_name, call.abbreviate, call.truncate)
  /\ UNCHANGED <<call, portsVars, policyVars>>

Next ==
  \/ CallNormalizeAddressFamily
  \/ CallNormalizeIcmpTypes
  \/ CallFixTermLength

Spec == Init /\ [][Next]_vars

(***************************************************************************)
(* Properties of the stateless operations (specification Spec)             *)
(***************************************************************************)
Called(op) == call.op = op /\ ret.kind # "none"

\* C8: NormalizeAddressFamily returns 4 for 4, 'inet' and 'bridge', 6 for 6
\* and 'inet6', raises UnsupportedAF for every other input; what it returns
\* is 4 or 6, and normalising that again returns the same value.
C8_AddressFamilyTable ==
  Called("NormalizeAddressFamily") =>
    LET four == {Num(4), Str("inet"), Str("bridge")}
        six  == {Num(6), Str("inet6")}
    IN /\ call.af \in four => ret = Return(Num(4))
       /\ call.af \in six => ret = Return(Num(6))
       /\ call.af \notin four \cup six => ret = Raise("UnsupportedAF")
       /\ ret.kind = "return" =>
            /\ ret.val.t = "int" /\ ret.val.n \in {4, 6}
            /\ NormalizeAddressFamily(ret.val) = ret

\* C8 witness: the alias 'bridge' was normalised to 4.
C8_Witness ==
  Called("NormalizeAddressFamily") /\ call.af = Str("bridge")
    /\ ret = Return(Num(4))

\* The address families the specification knows, and the number of each.
KnownAf == {Num(4), Num(6), Str("inet"), Str("inet6"), Str("bridge")}
AfNumber(af) == IF af \in {Num(6), Str("inet6")} THEN 6 ELSE 4

\* C6: with a non-empty icmp_types, NormalizeIcmpTypes fails in exactly four
\* cases, tested in this order: protocols neither ['icmp'] nor ['icmpv6']
\* (UnsupportedFilterError), unknown address family (UnsupportedAF), protocol
\* and address family disagree (MismatchIcmpInetError), a name missing from
\* the table of the address family (UnknownIcmpTypeError); with an empty
\* icmp_types it returns [''] whatever the other arguments are.
C6_IcmpFailureOrder ==
  Called("NormalizeIcmpTypes") =>
    LET types == call.icmp_types
        protos == call.protocols
        n == AfNumber(call.af)
    IN IF types = <<>> THEN ret = Return(<<"">>)
       ELSE IF protos \notin {<<"icmp">>, <<"icmpv6">>}
         THEN ret = Raise("UnsupportedFilterError")
       ELSE IF call.af \notin KnownAf
         THEN ret = Raise("UnsupportedAF")
       ELSE IF (protos = <<"icmp">> /\ n # 4) \/ (protos = <<"icmpv6">> /\ n # 6)
         THEN ret = Raise("MismatchIcmpInetError")
       ELSE IF \E i \in 1..Len(types) : types[i] \notin DOMAIN ICMP_TYPE[n]
         THEN ret = Raise("UnknownIcmpTypeError")
       ELSE ret.kind = "return"

\* C6 witness: a call whose protocols and address family are both wrong failed
\* on the protocols.
C6_Witness ==
  Called("NormalizeIcmpTypes") /\ call.icmp_types # <<>>
    /\ call.protocols = <<"tcp">> /\ call.af = Str("bogus")
    /\ ret = Raise("UnsupportedFilterError")

\* The lists holding the same names as s, each as often as s does.
Reorderings(s) ==
  {q \in [1..Len(s) -> {s[i] : i \in 1..Len(s)}] :
     \A x \in {s[i] : i \in 1..Len(s)} :
       Cardinality({i \in 1..Len(s) : q[i] = x})
         = Cardinality({i \in 1..Len(s) : s[i] = x})}

\* The result holds the code of each given name, once per occurrence.
CodesOf(types, n, codes) ==
  /\ Len(codes) = Len(types)
  /\ \A c \in {codes[i] : i \in 1..Len(codes)} :
       Cardinality({i \in 1..Len(codes) : codes[i] = c})
         = Cardinality({i \in 1..Len(types) : ICMP_TYPE[n][types[i]] = c})

IcmpSucceeded ==
  Called("NormalizeIcmpTypes") /\ call.icmp_types # <<>> /\ ret.kind = "return"

\* C7 as stated: on success the result holds the codes of the given names,
\* strictly increasing, and is the same for every ordering of the names.
C7_StrictlyIncreasing ==
  IcmpSucceeded =>
    /\ CodesOf(call.icmp_types, AfNumber(call.af), ret.val)
    /\ \A i \in 1..(Len(ret.val) - 1) : ret.val[i] < ret.val[i + 1]
    /\ \A q \in Reorderings(call.icmp_types) :
         NormalizeIcmpTypes(q, call.protocols, call.af) = ret

\* C7 amended: on success the result holds the codes of the given names, one
\* per occurrence, in non-decreasing order (a name given twice yields its
\* code twice); it is strictly increasing when the names are pairwise
\* distinct, and it is the same for every ordering of the names.
C7_SortedAscending ==
  IcmpSucceeded =>
    LET types == call.icmp_types IN
    /\ CodesOf(types, AfNumber(call.af), ret.val)
    /\ \A i \in 1..(Len(ret.val) - 1) : ret.val[i] <= ret.val[i + 1]
    /\ (\A i, j \in 1..Len(types) : i # j => types[i] # types[j]) =>
         \A i \in 1..(Len(ret.val) - 1) : ret.val[i] < ret.val[i + 1]
    /\ \A q \in Reorderings(types) :
         NormalizeIcmpTypes(q, call.protocols, call.af) = ret

\* C7 witness: two names given in descending order of their codes came back
\* in ascending order.
C7_Witness ==
  IcmpSucceeded /\ call.icmp_types = <<"echo-request", "echo-reply">>
    /\ call.af = Str("inet") /\ ret = Return(<<0, 8>>)

\* C4: FixTermLength returns a name of at most TERM_MAX_LENGTH characters or
\* raises TermNameTooLongError; a name that fits is returned unchanged under
\* every flag combination; with truncate the call never fails; a longer name
\* with truncate only is cut to its first TERM_MAX_LENGTH characters, and
\* with neither flag the call fails.
C4_FitsOrFails ==
  Called("FixTermLength") =>
    LET name == call.term_name
        long == Len(name) > TERM_MAX_LENGTH
    IN /\ \/ ret.kind = "return" /\ Len(ret.val) <= TERM_MAX_LENGTH
          \/ ret.kind = "raise" /\ ret.err = "TermNameTooLongError"
       /\ ~long => ret = Return(name)
       /\ call.truncate => ret.kind = "return"
       /\ (long /\ ~call.abbreviate /\ call.truncate) =>
            /\ ret = Return(SubSeq(name, 1, TERM_MAX_LENGTH))
            /\ Len(ret.val) = TERM_MAX_LENGTH
       /\ (long /\ ~call.abbreviate /\ ~call.truncate) => ret.kind = "raise"

\* C4 witness: a name that is too long was cut to the maximum length.
C4_Witness ==
  Called("FixTermLength") /\ Len(call.term_name) > TERM_MAX_LENGTH
    /\ ~call.abbreviate /\ call.truncate
    /\ ret.kind = "return" /\ Len(ret.val) = TERM_MAX_LENGTH

\* <<name, name after entry 1, name after entries 1..2, ...>>
RECURSIVE Stages(_)
Stages(acc) ==
  IF Len(acc) > Len(ABBREVIATION_TABLE) THEN acc
  ELSE Stages(Append(acc, ReSub(ABBREVIATION_TABLE[Len(acc)][1],
                                ABBREVIATION_TABLE[Len(acc)][2],
                                acc[Len(acc)])))

\* The least number of leading table entries after which the name fits, or
\* -1 when it never does.
LeastFit(stages) ==
  LET fits == {k \in 0..(Len(stages) - 1) : Len(stages[k + 1]) <= TERM_MAX_LENGTH}
  IN IF fits = {} THEN -1 ELSE CHOOSE k \in fits : \A j \in fits : k <= j

\* C5: with abbreviate, the result is the name with exactly the first k table
\* entries applied, each to every occurrence, k the least number of entries
\* after which the name fits; when no k fits, the name with every entry
\* applied goes to the truncate step or is reported in the error.
C5_FirstFittingPrefix ==
  (Called("FixTermLength") /\ call.abbreviate) =>
    LET stages == Stages(<<call.term_name>>)
        k == LeastFit(stages)
        full == stages[Len(stages)]
    IN IF k >= 0 THEN ret = Return(stages[k + 1])
       ELSE IF call.truncate THEN ret = Return(SubSeq(full, 1, TERM_MAX_LENGTH))
       ELSE /\ ret.kind = "raise" /\ ret.err = "TermNameTooLongError"
            /\ ret.new_term = full /\ ret.term_name = call.term_name

\* C5 witness: the name fitted after some but not all entries, and an entry
\* further down the table, which would have changed it, was not applied.
C5_Witness ==
  /\ Called("FixTermLength") /\ call.abbreviate
  /\ LET stages == Stages(<<call.term_name>>)
         k == LeastFit(stages)
     IN /\ k >= 1 /\ ret = Return(stages[k + 1])
        /\ stages[Len(stages)] # stages[k + 1]

(***************************************************************************)
(* FixHighPorts: terms, generators and calls (specification SpecPorts)     *)
(***************************************************************************)
MaxPorts == 2
MaxTermObjects == 3

\* Ranges below the high ports (adjacent to each other, overlapping each
\* other, ending one short of and right at the port before 1024), a range
\* that straddles 1024 and a range inside the high ports.
PortRanges ==
  {<<80, 80>>, <<81, 81>>, <<80, 1023>>, <<1022, 1022>>, <<1023, 1030>>,
   <<2000, 3000>>}

PortLists == UNION {[1..n -> PortRanges] : n \in 0..MaxPorts}

TermProtocols == {<<>>, <<"tcp", "udp">>, <<"icmp">>, <<"udp", "icmp">>}

TermOptions ==
  {<<>>, <<"established">>, <<"tcp-established">>,
   <<"sample", "established-only">>}

\* The base class, and a subclass that blacklists icmp for inet6.
Generators ==
  {[SUPPORTED_AF |-> SUPPORTED_AF, FILTER_BLACKLIST |-> FILTER_BLACKLIST],
   [SUPPORTED_AF |-> SUPPORTED_AF, FILTER_BLACKLIST |-> ("inet6" :> {"icmp"})]}

AfArguments == {"inet", "inet6", "bridge"}

Heap == [terms |-> terms, lists |-> lists]

\* A term as a reader sees it: its fields, the port list by its contents.
TermValue(H, t) ==
  [name |-> H.terms[t].name, protocol |-> H.terms[t].protocol,
   option |-> H.terms[t].option,
   destination_port |-> H.lists[H.terms[t].destination_port]]

InitPorts ==
  /\ call = [op |-> "none"] /\ ret = NoCall
  /\ pc = "idle" /\ header = {} /\ term = "none"
  /\ nfilters = 0 /\ nterms = 0 /\ active = FALSE /\ inert = FALSE
  /\ self \in Generators
  /\ \E protocol \in TermProtocols, option \in TermOptions :
       terms = (1 :> [name |-> "term-1", protocol |-> protocol,
                      option |-> option, destination_port |-> 1])
  /\ \E ports \in PortLists : lists = (1 :> ports)
  /\ fix = NoCall

\* A renderer calls FixHighPorts on a term it holds: the policy's term or a
\* term an earlier call returned.
CallFixHighPorts ==
  \E t \in DOMAIN terms, af \in AfArguments, all_protocols_stateful \in BOOLEAN :
    LET r == FixHighPorts(self, Heap, t, af, all_protocols_stateful) IN
    /\ Cardinality(DOMAIN r.heap.terms) <= MaxTermObjects
    /\ terms' = r.heap.terms
    /\ lists' = r.heap.lists
    /\ fix' = [kind |-> "called", term |-> t, af |-> af,
               all_protocols_stateful |-> all_protocols_stateful,
               before |-> TermValue(Heap, t), out |-> r.out]
    /\ UNCHANGED <<call, ret, self, policyVars>>

NextPorts == CallFixHighPorts

SpecPorts == InitPorts /\ [][NextPorts]_vars

(***************************************************************************)
(* Properties of FixHighPorts (specification SpecPorts)                    *)
(***************************************************************************)
\* C1: no call of FixHighPorts changes a term that exists when it is made:
\* whether the call returns a copy, returns the term itself or raises, every
\* such term keeps its fields and the contents of its destination_port list,
\* so after any sequence of calls they are what they were before the first.
C1_TermsNeverMutated ==
  [][\A t \in DOMAIN terms :
       /\ t \in DOMAIN terms'
       /\ terms'[t] = terms[t]
       /\ terms[t].destination_port \in DOMAIN lists'
       /\ lists'[terms[t].destination_port] = lists[terms[t].destination_port]
    ]_vars

\* C1 witness: two calls have returned copies, the latest call raised, and
\* the first term's port list differs from its copy's.
C1_Witness ==
  /\ fix.kind = "called" /\ fix.out.kind = "raise"
  /\ Cardinality(DOMAIN terms) >= 3
  /\ lists[terms[1].destination_port] # lists[terms[2].destination_port]

\* What the specification says of a call, read off the call's record.
EffectiveProtocols(protocol) ==
  IF protocol = <<>> THEN {"ip"} ELSE {protocol[i] : i \in 1..Len(protocol)}

HasEstablished(option) ==
  \E i \in 1..Len(option) :
    Len(option[i]) >= 11 /\ SubSeq(option[i], 1, 11) = "established"

\* The latest call had a supported address family and no blacklisted protocol.
Admitted ==
  /\ fix.kind = "called"
  /\ fix.af \in self.SUPPORTED_AF
  /\ \/ fix.af \notin DOMAIN self.FILTER_BLACKLIST
     \/ self.FILTER_BLACKLIST[fix.af]
          \cap EffectiveProtocols(fix.before.protocol) = {}

OnlyTcpUdp(protocol) ==
  protocol # <<>> /\ {protocol[i] : i \in 1..Len(protocol)} \subseteq {"tcp", "udp"}

InRanges(x, ports) == \E i \in 1..Len(ports) : ports[i][1] <= x /\ x <= ports[i][2]

\* Both lists cover the same ports. A port is in a range exactly if the
\* nearest bound (or bound +-1) at or below it is, so it is enough to
\* compare the two lists at those points.
SameCover(a, b) ==
  LET points == UNION {{r[1] - 1, r[1], r[2], r[2] + 1} :
                        r \in {a[i] : i \in 1..Len(a)} \cup {b[i] : i \in 1..Len(b)}}
  IN \A x \in points : InRanges(x, a) <=> InRanges(x, b)

\* Sorted by lower bound, pairwise disjoint and not adjacent.
Minimal(ports) ==
  /\ \A i \in 1..Len(ports) : ports[i][1] <= ports[i][2]
  /\ \A i \in 1..(Len(ports) - 1) : ports[i + 1][1] > ports[i][2] + 1

ReturnedPorts == lists[terms[fix.out.val].destination_port]

\* C2: an admitted call on a term with an established option and protocols
\* within {tcp, udp} returns a term whose destination_port is sorted,
\* disjoint and non-adjacent and covers exactly the term's ports and
\* 1024..65535; [(80,80)] gives [80,80],[1024,65535] and [(1023,1030)]
\* gives [1023,65535].
C2_HighPortsCollapsed ==
  (Admitted /\ HasEstablished(fix.before.option)
     /\ OnlyTcpUdp(fix.before.protocol)) =>
    /\ fix.out.kind = "return"
    /\ Minimal(ReturnedPorts)
    /\ SameCover(ReturnedPorts,
                 Append(fix.before.destination_port, <<1024, 65535>>))
    /\ fix.before.destination_port = << <<80, 80>> >> =>
         ReturnedPorts = << <<80, 80>>, <<1024, 65535>> >>
    /\ fix.before.destination_port = << <<1023, 1030>> >> =>
         ReturnedPorts = << <<1023, 65535>> >>

\* C2 witness: the ports [(1023,1030)] came back as [1023,65535].
C2_Witness ==
  /\ Admitted /\ HasEstablished(fix.before.option)
  /\ OnlyTcpUdp(fix.before.protocol)
  /\ fix.before.destination_port = << <<1023, 1030>> >>
  /\ fix.out.kind = "return"
  /\ ReturnedPorts = << <<1023, 65535>> >>

\* The call returned the very term it was given, and the term is as it was.
ReturnedOriginal ==
  /\ fix.out = Return(fix.term)
  /\ TermValue(Heap, fix.term) = fix.before

\* C3: an admitted call on a term with an established option and an
\* effective protocol other than tcp and udp raises EstablishedError unless
\* all_protocols_stateful, and then returns the term itself with no ports
\* added; an admitted call on a term without an established option returns
\* the term itself, unchanged.
C3_EstablishedOtherProtocols ==
  Admitted =>
    LET est == HasEstablished(fix.before.option)
        other == EffectiveProtocols(fix.before.protocol) \ {"tcp", "udp"} # {}
    IN /\ (est /\ other /\ ~fix.all_protocols_stateful) =>
            fix.out = Raise("EstablishedError")
       /\ (est /\ other /\ fix.all_protocols_stateful) => ReturnedOriginal
       /\ ~est => ReturnedOriginal

\* C3 witness: a term with an established option and no declared protocol
\* (so the default, ip) was refused.
C3_Witness ==
  /\ Admitted /\ HasEstablished(fix.before.option)
  /\ fix.before.protocol = <<>> /\ ~fix.all_protocols_stateful
  /\ fix.out = Raise("EstablishedError")

\* C10: collapsing a collapsed port list returns the same list, and an
\* admitted call on a term that FixHighPorts returned after adding the high
\* ports (every term but the first) returns a term with the same
\* destination_port list.
C10_Idempotent ==
  /\ \A l \in DOMAIN lists :
       LET c == CollapsePortList(lists[l])
       IN CollapsePortList(c) = c
  /\ (Admitted /\ fix.term # 1) =>
       /\ fix.out.kind = "return"
       /\ fix.out.val # fix.term
       /\ ReturnedPorts = fix.before.destination_port

\* C10 witness: a term returned by one call was given to a second call, which
\* returned another term with the same ports, not those of the first term.
C10_Witness ==
  /\ Admitted /\ fix.term # 1 /\ fix.out.kind = "return"
  /\ fix.out.val \notin {1, fix.term}
  /\ ReturnedPorts = fix.before.destination_port
  /\ ReturnedPorts # lists[terms[1].destination_port]

(***************************************************************************)
(* ACLGenerator.__init__: keyword validation (specification SpecPolicy)    *)
(*                                                                         *)
(* A term is [name, platform, platform_exclude, fields]: fields are the    *)
(* names of its other attributes that hold a true value. The two loops     *)
(* run one iteration per step, over a policy that is drawn as it is        *)
(* iterated: a header when the outer loop takes a filter, a term when the  *)
(* term list of that filter yields one. The terms of a filter for another  *)
(* platform are drawn too; the code does not look at them.                 *)
(***************************************************************************)
MaxFilters == 2
MaxTermsPerFilter == 2

\* The attributes of a term that hold a true value: term.__dict__.items()
\* with a true val. name is always set.
Populated(trm) ==
  trm.fields \cup {"name"}
    \cup (IF trm.platform # <<>> THEN {"platform"} ELSE {})
    \cup (IF trm.platform_exclude # <<>> THEN {"platform_exclude"} ELSE {})

\* A mutation of Skipped: platform_exclude is not looked at.
SkippedByAllowListOnly(gen, trm) ==
  trm.platform # <<>> /\ gen.PLATFORM \notin Range(trm.platform)

\* The two continue statements: the term is not active on the platform.
Skipped(gen, trm) ==
  \/ trm.platform # <<>> /\ gen.PLATFORM \notin Range(trm.platform)
  \/ trm.platform_exclude # <<>> /\ gen.PLATFORM \in Range(trm.platform_exclude)

\* err: the populated attributes that are no valid keyword and do not start
\* with 'flatten' (in the order of the term's dict; a set here).
UnsupportedKeywords(gen, trm) ==
  {el \in Populated(trm) :
     el \notin gen.VALID_KEYWORDS /\ ~StartsWith(el, "flatten")}

\* A platform subclass: its _PLATFORM and its optional keywords.
PolicyGenerators ==
  {[PLATFORM |-> "juniper", VALID_KEYWORDS |-> REQUIRED_KEYWORDS \cup optional] :
     optional \in {{}, {"counter"}}}

HeaderPlatforms == {{"juniper"}, {"cisco"}, {"cisco", "juniper"}}

TermFieldSets ==
  {{"action"}, {"action", "flattened"}, {"action", "counter"},
   {"action", "counter", "next_ip"}}

TermPlatformLists == {<<>>, <<"juniper">>, <<"cisco">>}

PolicyTerms(i) ==
  {[name |-> "term-" \o ToString(i), platform |-> t[1],
    platform_exclude |-> t[2], fields |-> t[3]] :
     t \in TermPlatformLists \X TermPlatformLists \X TermFieldSets}

\* What the specification calls an offending field and an offending term.
InvalidFields(gen, trm) ==
  {f \in Populated(trm) :
     /\ f \notin gen.VALID_KEYWORDS
     /\ ~(Len(f) >= 7 /\ SubSeq(f, 1, 7) = "flatten")}

Offending(gen, platforms, trm) ==
  /\ gen.PLATFORM \in platforms
  /\ trm.platform = <<>> \/ gen.PLATFORM \in {trm.platform[i] : i \in 1..Len(trm.platform)}
  /\ gen.PLATFORM \notin {trm.platform_exclude[i] : i \in 1..Len(trm.platform_exclude)}
  /\ InvalidFields(gen, trm) # {}

InitPolicy ==
  /\ call = [op |-> "__init__"] /\ ret = NoCall
  /\ terms = <<>> /\ lists = <<>> /\ fix = NoCall
  /\ self \in PolicyGenerators
  /\ pc = "filters" /\ header = {} /\ term = "none"
  /\ nfilters = 0 /\ nterms = 0 /\ active = FALSE /\ inert = FALSE

\* for header, terms in pol.filters: the next filter.
NextFilter ==
  /\ pc = "filters" /\ nfilters < MaxFilters
  /\ \E platforms \in HeaderPlatforms : header' = platforms
  /\ nfilters' = nfilters + 1
  /\ nterms' = 0
  /\ pc' = "terms"
  /\ UNCHANGED <<call, ret, portsVars, term, active, inert>>

\* for term in terms: the next term of the filter. In a filter for the
\* platform the term is skipped, passes or raises; in another filter the
\* inner loop is not run.
NextTerm ==
  /\ pc = "terms" /\ nterms < MaxTermsPerFilter
  /\ \E trm \in PolicyTerms(nterms + 1) :
       LET err == UnsupportedKeywords(self, trm)
           raises == /\ self.PLATFORM \in header
                     /\ ~Skipped(self, trm)
                     /\ err # {}
       IN /\ term' = trm
          /\ pc' = IF raises THEN "raised" ELSE "terms"
          /\ ret' = IF raises
                    THEN [kind |-> "raise", err |-> "UnsupportedFilterError",
                          term |-> trm.name, platform |-> self.PLATFORM,
                          fields |-> err]
                    ELSE ret
          /\ active' = (active \/ Offending(self, header, trm))
          /\ inert' = (inert \/ (InvalidFields(self, trm) # {}
                                   /\ ~Offending(self, header, trm)))
  /\ nterms' = nterms + 1
  /\ UNCHANGED <<call, portsVars, header, nfilters>>

\* The term list is exhausted: continue with the next filter.
EndTerms ==
  /\ pc = "terms"
  /\ pc' = "filters"
  /\ UNCHANGED <<call, ret, portsVars, header, term, nfilters, nterms, active, inert>>

\* pol.filters is exhausted: self._TranslatePolicy(pol, exp_info).
TranslatePolicy ==
  /\ pc = "filters"
  /\ pc' = "translate"
  /\ UNCHANGED <<call, ret, portsVars, header, term, nfilters, nterms, active, inert>>

NextPolicy == NextFilter \/ NextTerm \/ EndTerms \/ TranslatePolicy

SpecPolicy == InitPolicy /\ [][NextPolicy]_vars

\* C9: construction raises UnsupportedFilterError exactly when a term of a
\* filter for the platform is not skipped and has a populated attribute that
\* is neither a valid keyword nor internal; the error is raised at that term
\* and lists every such attribute of it; skipped terms and terms of filters
\* for other platforms never raise; _TranslatePolicy is entered only when no
\* term failed.
C9_KeywordValidation ==
  /\ (pc = "raised") <=> active
  /\ pc = "raised" =>
       /\ Offending(self, header, term)
       /\ ret.kind = "raise" /\ ret.err = "UnsupportedFilterError"
       /\ ret.term = term.name /\ ret.platform = self.PLATFORM
       /\ ret.fields = InvalidFields(self, term)
  /\ pc # "raised" => ret = NoCall
  /\ pc = "translate" => ~active

\* C9 witness: construction failed in the second filter on a term with two
\* invalid attributes, after a term with invalid attributes had been passed.
C9_Witness ==
  /\ pc = "raised" /\ nfilters = 2 /\ inert
  /\ Cardinality(ret.fields) = 2

====
